---------------------------- MODULE Spec2Model ----------------------------
(***************************************************************************)
(* LLM-over-DNS: the resolver (src/main.py), the label decoder and the TXT *)
(* chunker (src/utils/text_formatting.py) and the provider dispatch        *)
(* (src/utils/ai_providers.py).                                            *)
(*                                                                         *)
(* A Python str is a sequence of Unicode code points (naturals); a Python  *)
(* bytes object is a sequence of naturals below 256.  len() of a str is    *)
(* the number of code points; its size on the wire is the length of its    *)
(* UTF-8 encoding (ByteLen).                                               *)
(***************************************************************************)
EXTENDS Integers, Sequences, FiniteSets, TLC

VARIABLES
    resolver,     \* the LLMResolver instance: provider_name, model, max_output_chars, require_api_key
    DNS_API_KEY,  \* config.DNS_API_KEY: None or a str
    pc,           \* per query: where its handling thread is
    request,      \* per query: the DNSRecord being handled (qtype, qname labels)
    reply,        \* per query: the reply resolve returned, or the exception it raised
    calls,        \* per query: number of generate_with_provider calls resolve has made
    frame,        \* per call of resolve: its locals (qname, question) while it waits for the backend
    backend,      \* per query: the prompt sent to the backend and the backend's response
    call,         \* a call of one of the pure functions: its name and arguments
    ret           \* what that call returned

vars == <<resolver, DNS_API_KEY, pc, request, reply, calls, frame, backend, call, ret>>

-----------------------------------------------------------------------------
(* Python values *)

None == [none |-> TRUE, s |-> <<>>]

Str(s) == [none |-> FALSE, s |-> s]

Min(a, b) == IF a < b THEN a ELSE b

Max(a, b) == IF a > b THEN a ELSE b

\* n copies of the code point c
Rep(c, n) == [i \in 1..n |-> c]

\* str.isspace() of one code point
IsSpace(c) ==
    \/ c \in 9..13
    \/ c \in 28..32
    \/ c \in {133, 160, 5760, 8232, 8233, 8239, 8287, 12288}
    \/ c \in 8192..8202

\* s.startswith(p)
StartsWith(s, p) == Len(s) >= Len(p) /\ SubSeq(s, 1, Len(p)) = p

\* s[k:] for k >= 0
From(s, k) == SubSeq(s, k + 1, Len(s))

\* s[:k], k of either sign
SliceTo(s, k) ==
    LET n == Len(s)
        e == IF k < 0 THEN Max(n + k, 0) ELSE Min(k, n)
    IN  SubSeq(s, 1, e)

\* the least and the greatest element of a non-empty set of integers
Least(S) == CHOOSE i \in S : \A j \in S : i <= j

Greatest(S) == CHOOSE i \in S : \A j \in S : i >= j

\* s.rstrip(): up to the last character that is not whitespace
RStrip(s) ==
    LET keep == {i \in 1..Len(s) : ~IsSpace(s[i])}
    IN  IF keep = {} THEN <<>> ELSE SubSeq(s, 1, Greatest(keep))

\* s.lstrip(): from the first character that is not whitespace
LStrip(s) ==
    LET keep == {i \in 1..Len(s) : ~IsSpace(s[i])}
    IN  IF keep = {} THEN <<>> ELSE SubSeq(s, Least(keep), Len(s))

\* s.strip()
Strip(s) == RStrip(LStrip(s))

RECURSIVE Replace(_, _, _)
\* s.replace(old, new) for a non-empty old: the leftmost occurrence, then the rest
Replace(s, old, new) ==
    LET n == Len(old)
        at == {i \in 1..(Len(s) - n + 1) : SubSeq(s, i, i + n - 1) = old}
    IN  IF at = {} THEN s
        ELSE SubSeq(s, 1, Least(at) - 1) \o new
             \o Replace(From(s, Least(at) + n - 1), old, new)

RECURSIVE Join(_, _)
\* sep.join(parts)
Join(parts, sep) ==
    IF parts = <<>> THEN <<>>
    ELSE IF Len(parts) = 1 THEN parts[1]
    ELSE parts[1] \o sep \o Join(Tail(parts), sep)

\* s.split(): the maximal runs of characters that are not whitespace, in order
Split(s) ==
    LET starts == {i \in 1..Len(s) : ~IsSpace(s[i]) /\ (i = 1 \/ IsSpace(s[i - 1]))}
        ends == {i \in 1..Len(s) : ~IsSpace(s[i]) /\ (i = Len(s) \/ IsSpace(s[i + 1]))}
        start(k) == CHOOSE i \in starts : Cardinality({j \in starts : j < i}) = k - 1
        end(k) == CHOOSE i \in ends : Cardinality({j \in ends : j < i}) = k - 1
    IN  [k \in 1..Cardinality(starts) |-> SubSeq(s, start(k), end(k))]

\* s in t (substring)
Contains(t, s) == \E i \in 0..(Len(t) - Len(s)) : SubSeq(t, i + 1, i + Len(s)) = s

\* the number of bytes of the UTF-8 encoding of one code point
Utf8Len(c) == IF c < 128 THEN 1 ELSE IF c < 2048 THEN 2 ELSE IF c < 65536 THEN 3 ELSE 4

RECURSIVE ByteLen(_)
\* len(s.encode("utf-8"))
ByteLen(s) == IF s = <<>> THEN 0 ELSE Utf8Len(Head(s)) + ByteLen(Tail(s))

Space == <<32>>

-----------------------------------------------------------------------------
(* utils/text_formatting.py: chunk_text_for_txt_record *)

\* line 16: the length a word adds, with the separating space if current is not empty
add_len(current, word) == (IF current # <<>> THEN 1 ELSE 0) + Len(word)

RECURSIVE chunk_loop(_, _, _, _, _)
\* lines 14-25: the loop over text.split()
chunk_loop(words, chunks, current, current_len, max_chunk_bytes) ==
    IF words = <<>> THEN [chunks |-> chunks, current |-> current]
    ELSE LET word == Head(words) IN
         IF current_len + add_len(current, word) > max_chunk_bytes
         THEN chunk_loop(Tail(words), Append(chunks, Join(current, Space)),
                         <<word>>, Len(word), max_chunk_bytes)
         ELSE chunk_loop(Tail(words), chunks, Append(current, word),
                         current_len + add_len(current, word), max_chunk_bytes)

\* lines 28-29 left out
no_chunks_unguarded(chunks) == chunks

\* lines 28-29: never return an empty list
no_chunks(chunks) == IF chunks = <<>> THEN << <<>> >> ELSE chunks

chunk_text_for_txt_record(text, max_chunk_bytes) ==
    IF text = <<>> THEN << <<>> >>
    ELSE LET r == chunk_loop(Split(text), <<>>, <<>>, 0, max_chunk_bytes)
             chunks == IF r.current # <<>>
                       THEN Append(r.chunks, Join(r.current, Space))
                       ELSE r.chunks
         IN  no_chunks(chunks)

-----------------------------------------------------------------------------
(* utils/text_formatting.py: extract_api_key_and_question *)

\* "key-"
KeyPrefix == <<107, 101, 121, 45>>

\* "b64-"
B64Prefix == <<98, 54, 52, 45>>

\* U+FFFD, what errors="replace" puts for an undecodable byte sequence
Replacement == <<65533>>

RECURSIVE Utf8Decode(_)
\* bytes.decode("utf-8", errors="replace"): a well-formed sequence gives its code
\* point, a maximal ill-formed prefix gives one U+FFFD
Utf8Decode(bs) ==
    IF bs = <<>> THEN <<>>
    ELSE LET b == Head(bs)
             need == IF b < 128 THEN 0
                     ELSE IF b \in 194..223 THEN 1
                     ELSE IF b \in 224..239 THEN 2
                     ELSE IF b \in 240..244 THEN 3
                     ELSE -1
             lo == IF b = 224 THEN 160 ELSE IF b = 240 THEN 144 ELSE 128
             hi == IF b = 237 THEN 159 ELSE IF b = 244 THEN 143 ELSE 191
             IsCont(i) == i <= Len(bs) /\ bs[i] \in (IF i = 2 THEN lo..hi ELSE 128..191)
             k == IF need >= 1 /\ IsCont(2)
                  THEN (IF need >= 2 /\ IsCont(3)
                        THEN (IF need >= 3 /\ IsCont(4) THEN 3 ELSE 2)
                        ELSE 1)
                  ELSE 0
             cp == IF need = 1 THEN (b - 192) * 64 + (bs[2] - 128)
                   ELSE IF need = 2
                   THEN (b - 224) * 4096 + (bs[2] - 128) * 64 + (bs[3] - 128)
                   ELSE (b - 240) * 262144 + (bs[2] - 128) * 4096
                        + (bs[3] - 128) * 64 + (bs[4] - 128)
         IN  IF need = 0 THEN <<b>> \o Utf8Decode(Tail(bs))
             ELSE IF need = -1 THEN Replacement \o Utf8Decode(Tail(bs))
             ELSE IF k = need THEN <<cp>> \o Utf8Decode(From(bs, need + 1))
             ELSE Replacement \o Utf8Decode(From(bs, k + 1))

\* the 6-bit value of a character of the base64 alphabets (standard and urlsafe:
\* urlsafe_b64decode maps - to + and _ to / first), -1 for any other character
B64Value(c) ==
    IF c \in 65..90 THEN c - 65
    ELSE IF c \in 97..122 THEN c - 71
    ELSE IF c \in 48..57 THEN c + 4
    ELSE IF c \in {43, 45} THEN 62
    ELSE IF c \in {47, 95} THEN 63
    ELSE -1

Raised == [ok |-> FALSE]

Returned(v) == [ok |-> TRUE, value |-> v]

RECURSIVE a2b_base64(_, _, _, _, _)
\* binascii.a2b_base64, not strict: characters outside the alphabet are skipped,
\* a complete pad ends the input, leftover characters are an error
a2b_base64(s, quad_pos, leftchar, pads, out) ==
    IF s = <<>> THEN (IF quad_pos # 0 THEN Raised ELSE Returned(out))
    ELSE LET c == Head(s)
             v == B64Value(c)
         IN  IF c = 61
             THEN IF quad_pos >= 2 /\ quad_pos + pads + 1 >= 4
                  THEN Returned(out)
                  ELSE a2b_base64(Tail(s), quad_pos, leftchar,
                                  IF quad_pos >= 2 THEN pads + 1 ELSE pads, out)
             ELSE IF v = -1 THEN a2b_base64(Tail(s), quad_pos, leftchar, pads, out)
             ELSE IF quad_pos = 0 THEN a2b_base64(Tail(s), 1, v, 0, out)
             ELSE IF quad_pos = 1
                  THEN a2b_base64(Tail(s), 2, v % 16, 0,
                                  Append(out, leftchar * 4 + (v \div 16)))
             ELSE IF quad_pos = 2
                  THEN a2b_base64(Tail(s), 3, v % 4, 0,
                                  Append(out, leftchar * 16 + (v \div 4)))
             ELSE a2b_base64(Tail(s), 0, 0, 0, Append(out, leftchar * 64 + v))

\* lines 73-76: pad to a multiple of 4, encode as ASCII, base64url-decode, decode
\* the bytes as UTF-8 with replacement; any exception is Raised
b64_decode(enc) ==
    LET pad == Rep(61, (4 - (Len(enc) % 4)) % 4)
    IN  IF \E i \in 1..Len(enc) : enc[i] >= 128 THEN Raised
        ELSE LET r == a2b_base64(enc \o pad, 0, 0, 0, <<>>)
             IN  IF r.ok THEN Returned(Utf8Decode(r.value)) ELSE Raised

\* lines 69-84: the token one label contributes to the question
label_token(s) ==
    IF StartsWith(s, B64Prefix) /\ b64_decode(From(s, 4)).ok
    THEN b64_decode(From(s, 4)).value
    ELSE Replace(s, <<95>>, Space)

\* line 65 without i == 0: a key label at any position
is_key_label_anywhere(i, s) == StartsWith(s, KeyPrefix)

\* line 65: an API key label is the first label only (i counts from 0)
is_key_label(i, s) == i = 0 /\ StartsWith(s, KeyPrefix)

\* lines 52-53: drop the trailing root label
strip_root(labels) ==
    IF labels # <<>> /\ labels[Len(labels)] = <<>>
    THEN SubSeq(labels, 1, Len(labels) - 1)
    ELSE labels

RECURSIVE extract_loop(_, _, _, _)
\* lines 58-84: the loop over enumerate(labels)
extract_loop(labels, i, api_key, decoded_parts) ==
    IF i >= Len(labels) THEN [api_key |-> api_key, decoded_parts |-> decoded_parts]
    ELSE LET s == Utf8Decode(labels[i + 1]) IN
         IF is_key_label(i, s)
         THEN extract_loop(labels, i + 1, Str(From(s, 4)), decoded_parts)
         ELSE extract_loop(labels, i + 1, api_key, Append(decoded_parts, label_token(s)))

\* lines 87-90: one part that holds a space is used as it is, else the parts are joined
join_question(decoded_parts) ==
    IF Len(decoded_parts) = 1 /\ Contains(decoded_parts[1], Space)
    THEN decoded_parts[1]
    ELSE Join(decoded_parts, Space)

extract_api_key_and_question(qname) ==
    LET r == extract_loop(strip_root(qname), 0, None, <<>>)
    IN  [api_key |-> r.api_key, question |-> join_question(r.decoded_parts)]

-----------------------------------------------------------------------------
(* utils/ai_providers.py *)

\* "openai"
OpenAI == <<111, 112, 101, 110, 97, 105>>

\* "anthropic"
Anthropic == <<97, 110, 116, 104, 114, 111, 112, 105, 99>>

\* s.lower(), ASCII letters
Lower(s) == [i \in 1..Len(s) |-> IF s[i] \in 65..90 THEN s[i] + 32 ELSE s[i]]

\* lines 18-33: the response's output_text stripped; an API error is raised again
generate_with_openai(response) ==
    IF response.ok THEN Returned(Strip(response.value)) ELSE Raised

\* lines 36-63: the first content block's text; an API error is raised again
generate_with_anthropic(response) == response

\* lines 73-79: whether the provider name selects a backend (else ValueError)
known_provider(provider) == Lower(provider) \in {OpenAI, Anthropic}

\* lines 66-79: the dispatch on provider.lower(), given the selected backend's response
generate_with_provider(provider, response) ==
    IF Lower(provider) = OpenAI THEN generate_with_openai(response)
    ELSE IF Lower(provider) = Anthropic THEN generate_with_anthropic(response)
    ELSE Raised

-----------------------------------------------------------------------------
(* main.py: LLMResolver *)

\* lines 36-43: the chain of str.replace calls, in the order written
substitute(answer) ==
    LET r1 == Replace(answer,
                      <<44, 32, 34, 39, 34, 41, 46, 114, 101, 112, 108, 97, 99, 101, 40>>,
                      <<39>>)
        r2 == Replace(r1, <<34>>, <<34>>)
        r3 == Replace(r2, <<34>>, <<34>>)
        r4 == Replace(r3, <<8212>>, <<45, 45>>)
        r5 == Replace(r4, <<8211>>, <<45>>)
    IN  Replace(r5, <<8230>>, <<46, 46, 46>>)

\* lines 45-47: cut to max_output_chars - 10, strip the end, append "..."
truncate(max_output_chars, answer) ==
    IF max_output_chars > 0 /\ Len(answer) > max_output_chars
    THEN RStrip(SliceTo(answer, max_output_chars - 10)) \o <<46, 46, 46>>
    ELSE answer

\* lines 31-47, given what generate_with_provider did (returned a text or raised)
llm_answer(self, generated) ==
    IF generated.ok
    THEN Returned(truncate(self.max_output_chars, substitute(generated.value)))
    ELSE Raised

\* a DNS_API_KEY that "not DNS_API_KEY" (line 63) lets through
Truthy(key) == key # None /\ key.s # <<>>

NoAnswer == <<>>

Reply(rcode) == [raised |-> FALSE, rcode |-> rcode, rr |-> NoAnswer]

Exception == [raised |-> TRUE, rcode |-> "NONE", rr |-> NoAnswer]

\* resolve_gate without the token comparison of lines 68-71
resolve_gate_no_refuse(self, api_key_env, req) ==
    IF req.qtype # "TXT" THEN [go |-> FALSE, reply |-> Reply("NOTIMP"), question |-> <<>>]
    ELSE LET e == extract_api_key_and_question(req.qname) IN
         IF self.require_api_key /\ ~Truthy(api_key_env)
         THEN [go |-> FALSE, reply |-> Reply("SERVFAIL"), question |-> <<>>]
         ELSE [go |-> TRUE, reply |-> Reply("NOERROR"), question |-> e.question]

\* resolve_gate without the misconfiguration check of lines 63-66
resolve_gate_no_servfail(self, api_key_env, req) ==
    IF req.qtype # "TXT" THEN [go |-> FALSE, reply |-> Reply("NOTIMP"), question |-> <<>>]
    ELSE LET e == extract_api_key_and_question(req.qname) IN
         IF self.require_api_key /\ e.api_key # api_key_env
         THEN [go |-> FALSE, reply |-> Reply("REFUSED"), question |-> <<>>]
         ELSE [go |-> TRUE, reply |-> Reply("NOERROR"), question |-> e.question]

\* resolve_gate with the access check made before the query type check
resolve_gate_auth_first(self, api_key_env, req) ==
    LET e == extract_api_key_and_question(req.qname) IN
    IF self.require_api_key /\ ~Truthy(api_key_env)
    THEN [go |-> FALSE, reply |-> Reply("SERVFAIL"), question |-> <<>>]
    ELSE IF self.require_api_key /\ e.api_key # api_key_env
    THEN [go |-> FALSE, reply |-> Reply("REFUSED"), question |-> <<>>]
    ELSE IF req.qtype # "TXT"
    THEN [go |-> FALSE, reply |-> Reply("NOTIMP"), question |-> <<>>]
    ELSE [go |-> TRUE, reply |-> Reply("NOERROR"), question |-> e.question]

\* lines 50-71: request.reply() with the rcode of an early return, or Go with the
\* question when resolve goes on to llm_answer
resolve_gate(self, api_key_env, req) ==
    IF req.qtype # "TXT" THEN [go |-> FALSE, reply |-> Reply("NOTIMP"), question |-> <<>>]
    ELSE LET e == extract_api_key_and_question(req.qname) IN
         IF self.require_api_key /\ ~Truthy(api_key_env)
         THEN [go |-> FALSE, reply |-> Reply("SERVFAIL"), question |-> <<>>]
         ELSE IF self.require_api_key /\ e.api_key # api_key_env
         THEN [go |-> FALSE, reply |-> Reply("REFUSED"), question |-> <<>>]
         ELSE [go |-> TRUE, reply |-> Reply("NOERROR"), question |-> e.question]

\* lines 73-85: the reply with the TXT record, or the exception llm_answer let through
resolve_answer(self, qname, generated) ==
    LET answer == llm_answer(self, generated) IN
    IF ~answer.ok THEN Exception
    ELSE [raised |-> FALSE, rcode |-> "NOERROR",
          rr |-> << [rname |-> qname, rtype |-> "TXT", rclass |-> "IN", ttl |-> 0,
                     rdata |-> chunk_text_for_txt_record(answer.value, 200)] >>]

\* lines 49-85: resolve from the request to the reply, given the backend's response
resolve(self, api_key_env, req, response) ==
    LET g == resolve_gate(self, api_key_env, req) IN
    IF ~g.go THEN g.reply
    ELSE IF ~known_provider(self.provider_name) THEN Exception
    ELSE resolve_answer(self, req.qname,
                        generate_with_provider(self.provider_name, response))

-----------------------------------------------------------------------------
(* The server: run_server starts a UDP and a TCP listener on one resolver; each
   query is handled by a call of resolve on a thread of its own. *)

NumQueries == 2

Queries == 1..NumQueries

\* the listener a query arrives on
Transport(q) == IF q % 2 = 1 THEN "udp" ELSE "tcp"

\* the locals kept in one place for every call, as attributes of self would be
frame_of_shared(q) == 1

\* qname, question and reply are locals of resolve: each call has a frame of its own
frame_of(q) == q

\* "gemini", a name generate_with_provider does not know
Gemini == <<103, 101, 109, 105, 110, 105>>

Providers == {OpenAI, Anthropic, Gemini}

\* "abc"
Secret == <<97, 98, 99>>

\* os.getenv("DNS_API_KEY"): unset, set to the empty string, set
ApiKeys == {None, Str(<<>>), Str(Secret)}

QTypes == {"TXT", "A"}

\* "hi"
Hi == <<104, 105>>

\* hi. / key-abc.hi. (with the root label) / key-xyz.hi / hi.key-abc
QNames ==
    { <<Hi>>,
      <<KeyPrefix \o Secret, Hi, <<>> >>,
      <<KeyPrefix \o <<120, 121, 122>>, Hi>>,
      <<Hi, KeyPrefix \o Secret>> }

\* a word longer than the chunk budget of resolve
LongWord == Rep(97, 201)

\* the empty text, a blank text, a text with curly quotes and an em dash, a long word
BackendTexts == { <<>>, <<32>>, <<8220, 97, 8221, 32, 8212>>, LongWord }

MaxOutputChars == {0, 12}

NoRequest == [transport |-> "none", qtype |-> "none", qname |-> <<>>]

NoReply == [raised |-> FALSE, rcode |-> "NONE", rr |-> NoAnswer]

NoFrame == [qname |-> <<>>, question |-> <<>>]

NoBackend == [called |-> FALSE, prompt |-> <<>>, answered |-> FALSE, response |-> Raised]

NoCall == [fn |-> "none"]

NoRet == [returned |-> FALSE]

IdleServer ==
    /\ pc = [q \in Queries |-> "idle"]
    /\ request = [q \in Queries |-> NoRequest]
    /\ reply = [q \in Queries |-> NoReply]
    /\ calls = [q \in Queries |-> 0]
    /\ frame = [q \in Queries |-> NoFrame]
    /\ backend = [q \in Queries |-> NoBackend]

\* main.py lines 18-29 and 96: the resolver as constructed; config.py line 11
Init ==
    /\ resolver \in [provider_name : Providers, model : {None},
                     max_output_chars : MaxOutputChars, require_api_key : BOOLEAN]
    /\ DNS_API_KEY \in ApiKeys
    /\ IdleServer
    /\ call = NoCall
    /\ ret = NoRet

\* a listener receives a query and hands it to resolve on a new thread
Receive(q) ==
    /\ pc[q] = "idle"
    /\ \E qtype \in QTypes, qname \in QNames :
         request' = [request EXCEPT ![q] =
                        [transport |-> Transport(q), qtype |-> qtype, qname |-> qname]]
    /\ pc' = [pc EXCEPT ![q] = "received"]
    /\ UNCHANGED <<resolver, DNS_API_KEY, reply, calls, frame, backend, call, ret>>

\* resolve up to its early return, or up to the backend call inside llm_answer
ResolveStart(q) ==
    /\ pc[q] = "received"
    /\ LET g == resolve_gate(resolver, DNS_API_KEY, request[q]) IN
       IF ~g.go
       THEN /\ reply' = [reply EXCEPT ![q] = g.reply]
            /\ pc' = [pc EXCEPT ![q] = "done"]
            /\ UNCHANGED <<calls, frame, backend>>
       ELSE /\ calls' = [calls EXCEPT ![q] = @ + 1]
            /\ frame' = [frame EXCEPT ![frame_of(q)] =
                            [qname |-> request[q].qname, question |-> g.question]]
            /\ IF known_provider(resolver.provider_name)
               THEN /\ backend' = [backend EXCEPT ![q] =
                                     [called |-> TRUE, prompt |-> g.question,
                                      answered |-> FALSE, response |-> Raised]]
                    /\ pc' = [pc EXCEPT ![q] = "calling"]
                    /\ UNCHANGED reply
               ELSE /\ reply' = [reply EXCEPT ![q] = Exception]
                    /\ pc' = [pc EXCEPT ![q] = "done"]
                    /\ UNCHANGED backend
    /\ UNCHANGED <<resolver, DNS_API_KEY, request, call, ret>>

\* the rest of resolve once the backend has answered with `response`
Resume(q, response) ==
    /\ pc[q] = "calling"
    /\ backend' = [backend EXCEPT ![q].answered = TRUE, ![q].response = response]
    /\ reply' = [reply EXCEPT ![q] =
                    resolve_answer(resolver, frame[frame_of(q)].qname,
                                   generate_with_provider(resolver.provider_name, response))]
    /\ pc' = [pc EXCEPT ![q] = "done"]
    /\ UNCHANGED <<resolver, DNS_API_KEY, request, calls, frame, call, ret>>

\* the backend returns a text
BackendReturn(q) ==
    /\ pc[q] = "calling"
    /\ \E text \in BackendTexts : Resume(q, Returned(text))

\* the backend call fails: the provider function logs and raises again
BackendFail(q) ==
    /\ pc[q] = "calling"
    /\ Resume(q, Raised)

\* the reply is sent (or the exception left to the server) and the thread ends
Finish(q) ==
    /\ pc[q] = "done"
    /\ pc' = [pc EXCEPT ![q] = "idle"]
    /\ request' = [request EXCEPT ![q] = NoRequest]
    /\ reply' = [reply EXCEPT ![q] = NoReply]
    /\ calls' = [calls EXCEPT ![q] = 0]
    /\ frame' = [frame EXCEPT ![frame_of(q)] = NoFrame]
    /\ backend' = [backend EXCEPT ![q] = NoBackend]
    /\ UNCHANGED <<resolver, DNS_API_KEY, call, ret>>

\* a listener takes the next query once the one before it has been answered
ReceiveNext(q) == (\A o \in Queries \ {q} : pc[o] = "idle") /\ Receive(q)

\* one query at a time, on either listener, under every configuration
Next ==
    \E q \in Queries :
        \/ ReceiveNext(q)
        \/ ResolveStart(q)
        \/ BackendReturn(q)
        \/ BackendFail(q)
        \/ Finish(q)

Spec == Init /\ [][Next]_vars

\* the configurations the concurrent server is explored under: no access control;
\* access control with the secret set; access control with an empty secret; a
\* provider name generate_with_provider does not know
ServerConfigs ==
    { <<[provider_name |-> OpenAI, model |-> None, max_output_chars |-> 0,
         require_api_key |-> FALSE], None>>,
      <<[provider_name |-> Anthropic, model |-> None, max_output_chars |-> 12,
         require_api_key |-> TRUE], Str(Secret)>>,
      <<[provider_name |-> OpenAI, model |-> None, max_output_chars |-> 12,
         require_api_key |-> TRUE], Str(<<>>)>>,
      <<[provider_name |-> Gemini, model |-> None, max_output_chars |-> 0,
         require_api_key |-> FALSE], None>> }

ServerInit ==
    /\ \E c \in ServerConfigs : resolver = c[1] /\ DNS_API_KEY = c[2]
    /\ IdleServer
    /\ call = NoCall
    /\ ret = NoRet

\* the queries of both listeners handled on threads of their own, in any interleaving
ServerNext ==
    \E q \in Queries :
        \/ Receive(q)
        \/ ResolveStart(q)
        \/ BackendReturn(q)
        \/ BackendFail(q)
        \/ Finish(q)

SpecServer == ServerInit /\ [][ServerNext]_vars

-----------------------------------------------------------------------------
(* The pure functions, each applied to inputs drawn from bounded sets. *)

\* every sequence over A of length at most n
SeqsUpTo(A, n) == UNION {[1..k -> A] : k \in 0..n}

\* no server: the resolver is constructed and handles nothing
Quiet ==
    /\ resolver = [provider_name |-> OpenAI, model |-> None, max_output_chars |-> 0,
                   require_api_key |-> FALSE]
    /\ DNS_API_KEY = None
    /\ IdleServer

Return(fn, value) ==
    /\ call.fn = fn
    /\ ~ret.returned
    /\ ret' = [returned |-> TRUE, value |-> value]
    /\ UNCHANGED <<resolver, DNS_API_KEY, pc, request, reply, calls, frame, backend, call>>

MaxTextLen == 5

MaxChunkBytes == 4

\* a, b, space, e-acute (two bytes in UTF-8)
ChunkAlphabet == {97, 98, 32, 233}

ChunkInit ==
    /\ Quiet
    /\ call \in [fn : {"chunk_text_for_txt_record"},
                 text : SeqsUpTo(ChunkAlphabet, MaxTextLen),
                 max_chunk_bytes : 1..MaxChunkBytes]
    /\ ret = NoRet

ChunkCall ==
    Return("chunk_text_for_txt_record",
           chunk_text_for_txt_record(call.text, call.max_chunk_bytes))

SpecChunk == ChunkInit /\ [][ChunkCall]_vars

MaxAnswerLen == 3

MaxLongLen == 14

MaxChars == 12

\* a, space, the seven characters of the table
AnswerAlphabet == {97, 32, 8216, 8217, 8220, 8221, 8212, 8211, 8230}

\* short texts over the alphabet, and longer texts a a a ... cut at every length
GeneratedTexts ==
    SeqsUpTo(AnswerAlphabet, MaxAnswerLen)
    \cup {[i \in 1..n |-> IF i % 4 = 0 THEN 32 ELSE 97] : n \in 0..MaxLongLen}
    \cup {[i \in 1..n |-> IF i % 3 = 0 THEN 8212 ELSE 97] : n \in 0..MaxLongLen}

AnswerInit ==
    /\ Quiet
    /\ call \in [fn : {"llm_answer"}, generated : GeneratedTexts,
                 max_output_chars : 0..MaxChars]
    /\ ret = NoRet

\* llm_answer on a resolver with this max_output_chars, the provider having
\* returned call.generated
AnswerCall ==
    Return("llm_answer",
           llm_answer([resolver EXCEPT !.max_output_chars = call.max_output_chars],
                      Returned(call.generated)).value)

SpecAnswer == AnswerInit /\ [][AnswerCall]_vars

MaxLabels == 3

\* the root label; key-abc; key-; hi; what_is; b64-bGlmZQ ("life"); b64-aGkgeW8
\* ("hi yo"); b64-a (not base64); "a b"; the byte FF (not UTF-8)
LabelPool ==
    { <<>>,
      KeyPrefix \o Secret,
      KeyPrefix,
      Hi,
      <<119, 104, 97, 116, 95, 105, 115>>,
      B64Prefix \o <<98, 71, 108, 109, 90, 81>>,
      B64Prefix \o <<97, 71, 107, 103, 101, 87, 56>>,
      B64Prefix \o <<97>>,
      <<97, 32, 98>>,
      <<255>> }

DecodeInit ==
    /\ Quiet
    /\ call \in [fn : {"extract_api_key_and_question"},
                 qname : SeqsUpTo(LabelPool, MaxLabels)]
    /\ ret = NoRet

DecodeCall ==
    Return("extract_api_key_and_question", extract_api_key_and_question(call.qname))

SpecDecode == DecodeInit /\ [][DecodeCall]_vars

-----------------------------------------------------------------------------
(* Properties of resolve, one query at a time (Spec) *)

\* the access token the query name carries
Provided(q) == extract_api_key_and_question(request[q].qname).api_key

Handled(q) == pc[q] = "done"

\* C1 as stated: with access control enabled and a provided token that differs
\* from the configured secret, the outcome is REFUSED, whatever the query type
\* and whatever the secret configuration.
C1_RefusedWhateverConfig ==
    \A q \in Queries :
        (Handled(q) /\ resolver.require_api_key /\ Provided(q) # DNS_API_KEY)
            => reply[q] = Reply("REFUSED")

\* C1 amended: a TXT query handled with access control enabled, a non-empty
\* secret configured and a provided token (or none) that differs from it ends in
\* REFUSED with no answer record, whatever the question labels are.
C1_RefusedOnMismatch ==
    \A q \in Queries :
        (/\ Handled(q)
         /\ request[q].qtype = "TXT"
         /\ resolver.require_api_key
         /\ Truthy(DNS_API_KEY)
         /\ Provided(q) # DNS_API_KEY)
            => reply[q] = Reply("REFUSED")

\* a wrong key- label was given and the query was refused
C1_Witness ==
    \E q \in Queries :
        /\ Handled(q)
        /\ request[q].qtype = "TXT"
        /\ resolver.require_api_key
        /\ Truthy(DNS_API_KEY)
        /\ Provided(q) \notin {None, DNS_API_KEY}
        /\ reply[q].rcode = "REFUSED"

\* the query is one resolve answers: TXT, and access control is off or the
\* configured secret equals the provided token
Authorized(q) ==
    /\ request[q].qtype = "TXT"
    /\ \/ ~resolver.require_api_key
       \/ Truthy(DNS_API_KEY) /\ Provided(q) = DNS_API_KEY

\* C2: resolve calls the text-generation backend at most once per query and never
\* again after a failure: exactly once for a TXT query that passes the access
\* check, and not at all for a query that ends in NOTIMP, SERVFAIL or REFUSED.
C2_OneCall ==
    \A q \in Queries :
        /\ calls[q] <= 1
        /\ pc[q] \in {"calling", "done"} => calls[q] = (IF Authorized(q) THEN 1 ELSE 0)
        /\ (Handled(q) /\ reply[q].rcode \in {"NOTIMP", "SERVFAIL", "REFUSED"})
               => calls[q] = 0

\* the backend call of a query failed and resolve ended with that one call
C2_Witness ==
    \E q \in Queries :
        /\ Handled(q)
        /\ backend[q].answered
        /\ ~backend[q].response.ok
        /\ reply[q].raised
        /\ calls[q] = 1

\* C3: a query whose type is not TXT ends in NOTIMP with no answer record, under
\* every configuration and for every query name.
C3_NotImp ==
    \A q \in Queries :
        (Handled(q) /\ request[q].qtype # "TXT") => reply[q] = Reply("NOTIMP")

\* a non-TXT query with a wrong key, under access control with no secret set
C3_Witness ==
    \E q \in Queries :
        /\ Handled(q)
        /\ request[q].qtype # "TXT"
        /\ resolver.require_api_key
        /\ ~Truthy(DNS_API_KEY)
        /\ Provided(q) # None
        /\ reply[q].rcode = "NOTIMP"

\* C4: a TXT query handled with access control disabled, whose backend call
\* returned a text, ends in NOERROR with one TXT record that carries at least one
\* chunk, for every query name and every text.
C4_Answered ==
    \A q \in Queries :
        (/\ Handled(q)
         /\ request[q].qtype = "TXT"
         /\ ~resolver.require_api_key
         /\ backend[q].answered
         /\ backend[q].response.ok)
            => /\ ~reply[q].raised
               /\ reply[q].rcode = "NOERROR"
               /\ Len(reply[q].rr) = 1
               /\ reply[q].rr[1].rtype = "TXT"
               /\ Len(reply[q].rr[1].rdata) >= 1

\* a blank text reached the chunker unstripped and came back as one empty chunk
C4_Witness ==
    \E q \in Queries :
        /\ Handled(q)
        /\ request[q].qtype = "TXT"
        /\ ~resolver.require_api_key
        /\ backend[q].answered
        /\ backend[q].response = Returned(<<32>>)
        /\ resolver.provider_name = Anthropic
        /\ reply[q].rr[1].rdata = << <<>> >>

-----------------------------------------------------------------------------
(* The concurrent server (SpecServer) *)

\* C9: under every interleaving of the queries of the two listeners, a handled
\* query has the outcome resolve gives it alone (from its own request, the
\* configuration and the backend's response to its own call), its backend call
\* carried its own question, and the configuration never changes.
C9_Isolated ==
    /\ [](\A q \in Queries :
            /\ Handled(q) =>
                 reply[q] = resolve(resolver, DNS_API_KEY, request[q], backend[q].response)
            /\ backend[q].called =>
                 backend[q].prompt = extract_api_key_and_question(request[q].qname).question)
    /\ [][resolver' = resolver /\ DNS_API_KEY' = DNS_API_KEY]_vars

\* one query is answered while another one's backend call has not returned
C9_Witness ==
    \E q, o \in Queries :
        /\ q # o
        /\ pc[o] = "calling"
        /\ request[o].qname # request[q].qname
        /\ Handled(q)
        /\ ~reply[q].raised
        /\ Len(reply[q].rr) = 1

-----------------------------------------------------------------------------
(* extract_api_key_and_question (SpecDecode) *)

\* C7: the access token is the rest of the first label (after root removal) when
\* it starts with "key-", and None otherwise; a later "key-" label is question
\* text; the question is the tokens of the remaining labels, in label order,
\* joined by single spaces, also when there is one token or none.
C7_Decode ==
    ret.returned =>
        LET n == Len(call.qname)
            labels == IF n > 0 /\ call.qname[n] = <<>>
                      THEN SubSeq(call.qname, 1, n - 1)
                      ELSE call.qname
            hasKey == labels # <<>> /\ StartsWith(Utf8Decode(labels[1]), KeyPrefix)
            rest == IF hasKey THEN Tail(labels) ELSE labels
            tokens == [i \in 1..Len(rest) |-> label_token(Utf8Decode(rest[i]))]
        IN  /\ ret.value.api_key =
                  (IF hasKey THEN Str(From(Utf8Decode(labels[1]), 4)) ELSE None)
            /\ ret.value.question = Join(tokens, Space)

\* key-abc.hi.key-abc: the first label is the token, the last one is text
C7_Witness ==
    /\ ret.returned
    /\ call.qname = <<KeyPrefix \o Secret, Hi, KeyPrefix \o Secret>>
    /\ ret.value.api_key = Str(Secret)
    /\ ret.value.question = Hi \o Space \o KeyPrefix \o Secret

-----------------------------------------------------------------------------
(* llm_answer (SpecAnswer) *)

Ellipsis == <<46, 46, 46>>

\* C5: for every generated text and every max_output_chars > 0 the answer has at
\* most max_output_chars characters, and it ends in "..." when the text after
\* substitution is longer than max_output_chars.
C5_Bounded ==
    (ret.returned /\ call.max_output_chars > 0) =>
        /\ Len(ret.value) <= call.max_output_chars
        /\ Len(substitute(call.generated)) > call.max_output_chars =>
               /\ Len(ret.value) >= 3
               /\ SubSeq(ret.value, Len(ret.value) - 2, Len(ret.value)) = Ellipsis

\* the ASCII equivalent of one character of the table, the character itself otherwise
Ascii(c) ==
    IF c \in {8216, 8217} THEN <<39>>
    ELSE IF c \in {8220, 8221} THEN <<34>>
    ELSE IF c = 8212 THEN <<45, 45>>
    ELSE IF c = 8211 THEN <<45>>
    ELSE IF c = 8230 THEN Ellipsis
    ELSE <<c>>

RECURSIVE AsciiText(_)
AsciiText(s) == IF s = <<>> THEN <<>> ELSE Ascii(Head(s)) \o AsciiText(Tail(s))

\* C8: the answer holds none of the characters of the table (curly single and
\* double quotes, em dash, en dash, ellipsis); without truncation it is the text
\* with each of them replaced by its ASCII equivalent and nothing else changed.
C8_AsciiPunctuation ==
    ret.returned =>
        /\ \A i \in 1..Len(ret.value) :
               ret.value[i] \notin {8216, 8217, 8220, 8221, 8212, 8211, 8230}
        /\ call.max_output_chars = 0 => ret.value = AsciiText(call.generated)

-----------------------------------------------------------------------------
(* chunk_text_for_txt_record (SpecChunk) *)

RECURSIVE WordsOf(_)
\* the words of the chunks, in order
WordsOf(chunks) ==
    IF chunks = <<>> THEN <<>> ELSE Split(Head(chunks)) \o WordsOf(Tail(chunks))

\* C6: every chunk is at most max_chunk_bytes bytes long, except a chunk that is
\* one word itself over the budget; no word is split across chunks.
C6_ByteBudget ==
    ret.returned =>
        /\ \A i \in 1..Len(ret.value) :
               \/ ByteLen(ret.value[i]) <= call.max_chunk_bytes
               \/ /\ Split(ret.value[i]) = <<ret.value[i]>>
                  /\ ByteLen(ret.value[i]) > call.max_chunk_bytes
        /\ WordsOf(ret.value) = Split(call.text)

\* C10: for a text with at least one word no chunk is empty, and the chunks
\* joined by single spaces are the words of the text joined by single spaces.
C10_JoinedWords ==
    (ret.returned /\ Split(call.text) # <<>>) =>
        /\ \A i \in 1..Len(ret.value) : ret.value[i] # <<>>
        /\ Join(ret.value, Space) = Join(Split(call.text), Space)

-----------------------------------------------------------------------------
(* What the code does guarantee where it departs from C5, C6, C8 and C10 *)

\* from max_output_chars = 10 on, the answer has at most max_output_chars characters
BoundedFromTen ==
    (ret.returned /\ call.max_output_chars >= 10) =>
        Len(ret.value) <= call.max_output_chars

\* a text without curly quotes comes back with its dashes and ellipsis characters
\* replaced and nothing else changed
DashesAndEllipsisReplaced ==
    (/\ ret.returned
     /\ call.max_output_chars = 0
     /\ \A i \in 1..Len(call.generated) :
            call.generated[i] \notin {8216, 8217, 8220, 8221})
        => ret.value = AsciiText(call.generated)

\* counted in characters, a chunk is within the budget or is one over-budget word
WithinCharBudget ==
    ret.returned =>
        \A i \in 1..Len(ret.value) :
            \/ Len(ret.value[i]) <= call.max_chunk_bytes
            \/ /\ Split(ret.value[i]) = <<ret.value[i]>>
               /\ Len(ret.value[i]) > call.max_chunk_bytes

\* when the first word fits the budget, no chunk is empty and the chunks joined
\* by spaces are the words joined by spaces
JoinedWordsWhenFirstFits ==
    (/\ ret.returned
     /\ Split(call.text) # <<>>
     /\ Len(Split(call.text)[1]) <= call.max_chunk_bytes)
        => /\ \A i \in 1..Len(ret.value) : ret.value[i] # <<>>
           /\ Join(ret.value, Space) = Join(Split(call.text), Space)

=============================================================================
